---- MODULE Spec2Model ----
(***************************************************************************)
(* A model of polite (src/handler.rs): a launcher that resolves a          *)
(* niceness / OOM-score pair for a program, forks, applies the pair to     *)
(* the child from the parent and waits for the child.                      *)
(*                                                                         *)
(* Text is modelled as sequences of one-character strings, so splitting,   *)
(* trimming and integer parsing are computed and not assumed.              *)
(*                                                                         *)
(* Three specifications share the module:                                  *)
(*   SpecParse  parse_config_line applied to generated lines               *)
(*   SpecLoad   load_local_config applied to generated files               *)
(*   Spec       main: the command dispatch, and `run` with its child       *)
(***************************************************************************)
EXTENDS Integers, Sequences, FiniteSets, TLC

VARIABLES
  cells,      \* SpecParse: the fields the input line is built from
  line,       \* SpecParse: the input line, a sequence of characters
  parsed,     \* SpecParse: Pending, or the result of parse_config_line(line)
  file,       \* SpecLoad: the local file, [exists, lines]
  loadPc,     \* SpecLoad: where load_local_config stands: open, loop, done
  pos,        \* SpecLoad: the number of lines the loop has read
  scan,       \* SpecLoad: the loop's locals, [in_section, configs, stop, error]
  loadResult, \* SpecLoad: Pending, or what load_local_config returned
  command,    \* Spec: args[1], "" when the command line has none
  argc,       \* Spec: args.len(), the program name included
  aliasArg,   \* Spec: args[2] as text, the alias of `run` (the pid of `status`)
  program,    \* Spec: args[3], the program path as text
  pc,         \* Spec: where the parent stands in `run`
  alias,      \* Spec: the parsed alias
  config,     \* Spec: Pending, or Ok(the resolved PoliteConfig)
  runResult,  \* Spec: Pending, or what main returned in the parent
  exitCode,   \* Spec: the parent's exit code, -1 while it runs
  stderr,     \* Spec: the lines the launcher itself wrote to standard error
  now,        \* Spec: the clock reading of the dynamic branch, -1 when not read
  remote,     \* Spec: the response the fetch got, [ok, lines]
  fetched,    \* Spec: Pending, or what fetch_online_config returned
  fetchCalls, \* Spec: how often fetch_online_config was called
  oracleCalls,\* Spec: how often mock_llm_decision was called
  localFile,  \* Spec: polite.conf as load_local_config found it
  loaded,     \* Spec: Pending, or what load_local_config returned
  localLoads, \* Spec: how often load_local_config was called
  programExists, \* Spec: whether the program path exists in the file system
  child,      \* Spec: the forked child, [state, pgid, ran, nice, oom, code, reaped]
  childOps    \* Spec: the parent's system calls on the child, in order, [op, ok]

parseVars == <<cells, line, parsed>>

loadVars == <<file, loadPc, pos, scan, loadResult>>

argVars == <<command, argc, aliasArg, program, programExists>>

ctlVars == <<pc, runResult, exitCode, stderr>>

resolveVars ==
  <<alias, config, now, remote, fetched, fetchCalls, oracleCalls, localFile, loaded, localLoads>>

procVars == <<child, childOps>>

runVars == <<argVars, ctlVars, resolveVars, procVars>>

----------------------------------------------------------------------------
(* Results: Rust's Result<T, String>.                                       *)

Pending == [tag |-> "pending"]

Ok(v) == [tag |-> "ok", val |-> v]

Err(e) == [tag |-> "err", err |-> e]

IsOk(r) == r.tag = "ok"

IsErr(r) == r.tag = "err"

----------------------------------------------------------------------------
(* Integer widths and the ranges parse_config_line validates.               *)

I8Min == -128

I8Max == 127

I32Max == 2147483647

I32Min == -I32Max - 1

NiceMin == -20

NiceMax == 19

OomMin == -1000

OomMax == 1000

----------------------------------------------------------------------------
(* Characters and decimal text.                                             *)

DigitChars == <<"0", "1", "2", "3", "4", "5", "6", "7", "8", "9">>

DigitSet == {DigitChars[i] : i \in 1..10}

DigitVal(c) == (CHOOSE i \in 1..10 : DigitChars[i] = c) - 1

RECURSIVE NatDigits(_)
NatDigits(n) ==
  IF n < 10 THEN <<DigitChars[n + 1]>>
  ELSE NatDigits(n \div 10) \o <<DigitChars[(n % 10) + 1]>>

\* i32::to_string / the canonical decimal form of an integer.
ToDecimal(v) == IF v < 0 THEN <<"-">> \o NatDigits(-v) ELSE NatDigits(v)

\* The digit loop of <integer>::from_str: per character, the digit test, then
\* the checked multiply by ten, then the checked add (subtract when negative).
RECURSIVE Accumulate(_, _, _, _, _, _)
Accumulate(digits, i, acc, positive, lo, hi) ==
  IF i > Len(digits) THEN Ok(acc)
  ELSE IF digits[i] \notin DigitSet THEN Err("invalid digit found in string")
  ELSE LET d == DigitVal(digits[i]) IN
    IF positive
    THEN IF acc > hi \div 10 \/ acc * 10 > hi - d
         THEN Err("number too large to fit in target type")
         ELSE Accumulate(digits, i + 1, acc * 10 + d, positive, lo, hi)
    ELSE IF acc < (lo + 9) \div 10 \/ acc * 10 < lo + d
         THEN Err("number too small to fit in target type")
         ELSE Accumulate(digits, i + 1, acc * 10 - d, positive, lo, hi)

\* str::parse::<iN>() for a signed integer type with range lo..hi.
ParseInt(s, lo, hi) ==
  IF Len(s) = 0 THEN Err("cannot parse integer from empty string")
  ELSE IF Len(s) = 1 /\ s[1] \in {"+", "-"} THEN Err("invalid digit found in string")
  ELSE IF s[1] = "+" THEN Accumulate(Tail(s), 1, 0, TRUE, lo, hi)
  ELSE IF s[1] = "-" THEN Accumulate(Tail(s), 1, 0, FALSE, lo, hi)
  ELSE Accumulate(s, 1, 0, TRUE, lo, hi)

ParseI8(s) == ParseInt(s, I8Min, I8Max)

ParseI32(s) == ParseInt(s, I32Min, I32Max)

\* str::split(';'): the fields between separators; an empty line is one empty field.
RECURSIVE SplitFrom(_, _, _, _)
SplitFrom(s, i, cur, acc) ==
  IF i > Len(s) THEN Append(acc, cur)
  ELSE IF s[i] = ";" THEN SplitFrom(s, i + 1, <<>>, Append(acc, cur))
  ELSE SplitFrom(s, i + 1, Append(cur, s[i]), acc)

Split(s) == SplitFrom(s, 1, <<>>, <<>>)

----------------------------------------------------------------------------
(* PoliteConfig and parse_config_line.                                      *)

PoliteConfig(n, o) == [niceness |-> n, oom_score_adj |-> o]

\* Faulty variant of OutOfRange: the upper niceness limit is taken as exclusive.
OutOfRange_NiceExclusive(niceness, oom_score_adj) ==
  niceness < NiceMin \/ niceness >= NiceMax \/ oom_score_adj < OomMin \/ oom_score_adj > OomMax

\* Faulty variant of OutOfRange: the upper OOM limit is not checked.
OutOfRange_NoOomUpper(niceness, oom_score_adj) ==
  niceness < NiceMin \/ niceness > NiceMax \/ oom_score_adj < OomMin

\* The range test of parse_config_line.
OutOfRange(niceness, oom_score_adj) ==
  niceness < NiceMin \/ niceness > NiceMax \/ oom_score_adj < OomMin \/ oom_score_adj > OomMax

\* Faulty variant of ReservedAlias: the sentinel is not rejected.
ReservedAlias_Never(a) == FALSE

\* The reserved-alias test of parse_config_line.
ReservedAlias(a) == a = 0

parse_config_line(l) ==
  LET parts == Split(l) IN
  IF Len(parts) < 3 THEN Err("Invalid config")
  ELSE LET parsedAlias == ParseI8(parts[1]) IN
    IF IsErr(parsedAlias) THEN parsedAlias
    ELSE IF ReservedAlias(parsedAlias.val) THEN Err("Alias 0 reserved")
    ELSE LET niceness == ParseI32(parts[2]) IN
      IF IsErr(niceness) THEN niceness
      ELSE LET oom_score_adj == ParseI32(parts[3]) IN
        IF IsErr(oom_score_adj) THEN oom_score_adj
        ELSE IF OutOfRange(niceness.val, oom_score_adj.val) THEN Err("Value out of range")
        ELSE Ok(<<parsedAlias.val, PoliteConfig(niceness.val, oom_score_adj.val)>>)

----------------------------------------------------------------------------
(* ConfigMapping: HashMap<i8, PoliteConfig> as a set of <<alias, config>>   *)
(* pairs with at most one pair per alias.                                   *)

EmptyMap == {}

\* HashMap::insert: the new pair replaces any pair of the same alias.
MapInsert(m, k, c) == {e \in m : e[1] # k} \cup {<<k, c>>}

\* HashMap::get(..).is_some().
MapHas(m, k) == \E e \in m : e[1] = k

\* HashMap::get(..).cloned() of a present key.
MapGet(m, k) == (CHOOSE e \in m : e[1] = k)[2]

MapKeys(m) == {e[1] : e \in m}

----------------------------------------------------------------------------
(* load_local_config.                                                       *)

WhiteSpace == {" ", "\t"}

RECURSIVE TrimStart(_)
TrimStart(s) ==
  IF Len(s) > 0 /\ s[1] \in WhiteSpace THEN TrimStart(Tail(s)) ELSE s

RECURSIVE TrimEnd(_)
TrimEnd(s) ==
  IF Len(s) > 0 /\ s[Len(s)] \in WhiteSpace THEN TrimEnd(SubSeq(s, 1, Len(s) - 1)) ELSE s

\* str::trim.
Trim(s) == TrimEnd(TrimStart(s))

\* str::starts_with(char).
StartsWith(s, c) == Len(s) > 0 /\ s[1] = c

\* str::is_empty.
IsEmpty(s) == Len(s) = 0

StartMarker == <<"-", "S", "T", "A", "R", "T", "-">>

EndMarker == <<"-", "E", "N", "D", "-">>

\* A line of the file that BufRead::lines cannot decode: the iterator yields Err.
InvalidUtf8 == <<"<invalid utf-8>">>

ReadLine(raw) ==
  IF raw = InvalidUtf8 THEN Err("stream did not contain valid UTF-8") ELSE Ok(raw)

ScanStart == [in_section |-> FALSE, configs |-> EmptyMap, stop |-> FALSE, error |-> ""]

\* Faulty variant of ScanLine: the end marker leaves the section but the loop goes on.
ScanLine_NoBreak(st, raw) ==
  LET read == ReadLine(raw) IN
  IF IsErr(read) THEN [st EXCEPT !.error = read.err]
  ELSE LET l == Trim(read.val) IN
    IF l = StartMarker THEN [st EXCEPT !.in_section = TRUE]
    ELSE IF l = EndMarker THEN [st EXCEPT !.in_section = FALSE]
    ELSE IF st.in_section /\ ~IsEmpty(l) /\ ~StartsWith(l, "#")
    THEN LET r == parse_config_line(l) IN
      IF IsErr(r) THEN [st EXCEPT !.error = r.err]
      ELSE [st EXCEPT !.configs = MapInsert(st.configs, r.val[1], r.val[2])]
    ELSE st

\* Faulty variant of ScanLine: a line that fails to parse is skipped.
ScanLine_SkipBad(st, raw) ==
  LET read == ReadLine(raw) IN
  IF IsErr(read) THEN [st EXCEPT !.error = read.err]
  ELSE LET l == Trim(read.val) IN
    IF l = StartMarker THEN [st EXCEPT !.in_section = TRUE]
    ELSE IF l = EndMarker THEN [st EXCEPT !.stop = TRUE]
    ELSE IF st.in_section /\ ~IsEmpty(l) /\ ~StartsWith(l, "#")
    THEN LET r == parse_config_line(l) IN
      IF IsErr(r) THEN st
      ELSE [st EXCEPT !.configs = MapInsert(st.configs, r.val[1], r.val[2])]
    ELSE st

\* One iteration of the loop over reader.lines(): `error` set is the `?` return,
\* `stop` set is the break.
ScanLine(st, raw) ==
  LET read == ReadLine(raw) IN
  IF IsErr(read) THEN [st EXCEPT !.error = read.err]
  ELSE LET l == Trim(read.val) IN
    IF l = StartMarker THEN [st EXCEPT !.in_section = TRUE]
    ELSE IF l = EndMarker THEN [st EXCEPT !.stop = TRUE]
    ELSE IF st.in_section /\ ~IsEmpty(l) /\ ~StartsWith(l, "#")
    THEN LET r == parse_config_line(l) IN
      IF IsErr(r) THEN [st EXCEPT !.error = r.err]
      ELSE [st EXCEPT !.configs = MapInsert(st.configs, r.val[1], r.val[2])]
    ELSE st

RECURSIVE ScanFrom(_, _, _)
ScanFrom(lines, i, st) ==
  IF i > Len(lines) \/ st.stop \/ st.error # "" THEN st
  ELSE ScanFrom(lines, i + 1, ScanLine(st, lines[i]))

\* load_local_config as a function of the file it opens.
load_local_config(f) ==
  IF ~f.exists THEN Err("No such file or directory (os error 2)")
  ELSE LET st == ScanFrom(f.lines, 1, ScanStart) IN
    IF st.error # "" THEN Err(st.error) ELSE Ok(st.configs)

----------------------------------------------------------------------------
(* fetch_online_config, mock_llm_decision and the dynamic branch of `run`.  *)

\* A response whose transport or body read failed.
TransportError == [ok |-> FALSE, lines |-> <<>>]

Document(ls) == [ok |-> TRUE, lines |-> ls]

\* The filter of fetch_online_config: the blank test trims, the comment test
\* does not.
Candidate(l) == ~IsEmpty(Trim(l)) /\ ~StartsWith(l, "#")

RECURSIVE FetchFold(_, _, _)
FetchFold(lines, i, configs) ==
  IF i > Len(lines) THEN configs
  ELSE IF ~Candidate(lines[i]) THEN FetchFold(lines, i + 1, configs)
  ELSE LET r == parse_config_line(lines[i]) IN
    IF IsOk(r) THEN FetchFold(lines, i + 1, MapInsert(configs, r.val[1], r.val[2]))
    ELSE FetchFold(lines, i + 1, configs)

\* Faulty variant of fetch_online_config: an empty mapping is returned as Ok.
fetch_online_config_AllowEmpty(resp) ==
  IF ~resp.ok THEN Err("Fetch error: {}")
  ELSE Ok(FetchFold(resp.lines, 1, EmptyMap))

\* fetch_online_config as a function of the response to its request.
fetch_online_config(resp) ==
  IF ~resp.ok THEN Err("Fetch error: {}")
  ELSE LET configs == FetchFold(resp.lines, 1, EmptyMap) IN
    IF configs = EmptyMap THEN Err("No valid online configs") ELSE Ok(configs)

\* str::contains.
Contains(s, sub) ==
  \E i \in 1..(Len(s) - Len(sub) + 1) : SubSeq(s, i, i + Len(sub) - 1) = sub

Boinc == <<"b", "o", "i", "n", "c">>

mock_llm_decision(prog) == PoliteConfig(IF Contains(prog, Boinc) THEN 5 ELSE 0, 100)

\* The alias looked up in a fetched mapping.
WellKnownAlias == 65

\* The refresh interval in seconds, and the hardcoded last refresh.
RefreshInterval == 3600

last_fetch == 0

\* Whether the dynamic branch attempts the fetch at clock reading t.
FetchDue(t) == t - last_fetch > RefreshInterval

\* Faulty variant of UsesFetched: the run's own alias (0) is looked up.
UsesFetched_OwnAlias(f) == IsOk(f) /\ MapHas(f.val, 0)

\* Whether the match on the fetch result takes the fetched entry.
UsesFetched(f) == IsOk(f) /\ MapHas(f.val, WellKnownAlias)

----------------------------------------------------------------------------
(* Lines built from fields, then parsed (SpecParse).                        *)

\* How far around each boundary value the generated integers reach.
Slack == 1

\* The most fields a generated line has.
MaxFields == 4

Around(c) == (c - Slack)..(c + Slack)

IntCell(v) == [int |-> TRUE, v |-> v, raw |-> <<>>]

RawCell(r) == [int |-> FALSE, v |-> 0, raw |-> r]

CellText(c) == IF c.int THEN ToDecimal(c.v) ELSE c.raw

\* Alias fields: integers around the i8 limits and zero, and text that is not
\* a canonical decimal integer.
AliasCells ==
  {IntCell(v) : v \in Around(I8Min) \cup Around(0) \cup {65} \cup Around(I8Max)}
  \cup {RawCell(r) : r \in {<<>>, <<"x">>, <<"+", "0">>, <<"-", "0">>, <<"0", "0">>,
                            <<"+", "1">>, <<" ", "1">>}}

NiceCells ==
  {IntCell(v) : v \in Around(NiceMin) \cup {0, 5} \cup Around(NiceMax)
                      \cup {I32Max - k : k \in 0..Slack} \cup {k - I32Max : k \in 0..Slack}}
  \cup {RawCell(r) : r \in {<<>>, <<"x">>,
                            <<"2", "1", "4", "7", "4", "8", "3", "6", "4", "8">>}}

OomCells ==
  {IntCell(v) : v \in Around(OomMin) \cup {0, 100} \cup Around(OomMax)}
  \cup {RawCell(r) : r \in {<<"x">>,
                            <<"-", "2", "1", "4", "7", "4", "8", "3", "6", "4", "9">>}}

ExtraCells == {RawCell(<<"x">>)}

CellsAt(i) ==
  IF i = 1 THEN AliasCells ELSE IF i = 2 THEN NiceCells ELSE IF i = 3 THEN OomCells
  ELSE ExtraCells

RECURSIVE CellSeqsOfLen(_)
CellSeqsOfLen(n) ==
  IF n = 0 THEN {<<>>}
  ELSE {Append(cs, c) : cs \in CellSeqsOfLen(n - 1), c \in CellsAt(n)}

CellSeqs == UNION {CellSeqsOfLen(n) : n \in 1..MaxFields}

RECURSIVE JoinFrom(_, _)
JoinFrom(cs, i) ==
  IF i > Len(cs) THEN <<>>
  ELSE IF i = Len(cs) THEN CellText(cs[i])
  ELSE CellText(cs[i]) \o <<";">> \o JoinFrom(cs, i + 1)

\* The line `f1;f2;...;fn` of the fields' texts.
MkLine(cs) == JoinFrom(cs, 1)

InitParse ==
  /\ cells \in CellSeqs
  /\ line = MkLine(cells)
  /\ parsed = Pending

ParseLine ==
  /\ parsed = Pending
  /\ parsed' = parse_config_line(line)
  /\ UNCHANGED <<cells, line, loadVars, runVars>>

NextParse == ParseLine

----------------------------------------------------------------------------
(* SpecLoad: load_local_config stepping through generated files.            *)

RECURSIVE SeqsOfLen(_, _)
SeqsOfLen(pool, n) ==
  IF n = 0 THEN {<<>>}
  ELSE {Append(ls, l) : ls \in SeqsOfLen(pool, n - 1), l \in pool}

SeqsUpTo(pool, n) == UNION {SeqsOfLen(pool, k) : k \in 0..n}

\* The most lines a generated local file has.
MaxLines == 4

NoFile == [exists |-> FALSE, lines |-> <<>>]

\* The lines files are made of: both markers, two records (one padded with
\* blanks), a line that is no record, a blank line, an indented comment and an
\* undecodable line.
LinePool ==
  { StartMarker,
    EndMarker,
    <<"1", ";", "5", ";", "9">>,
    <<" ", "2", ";", "0", ";", "0", " ">>,
    <<"x">>,
    <<>>,
    <<" ", "#">>,
    InvalidUtf8 }

LocalFiles ==
  {NoFile} \cup {[exists |-> TRUE, lines |-> ls] : ls \in SeqsUpTo(LinePool, MaxLines)}

IdleParse == cells = <<>> /\ line = <<>> /\ parsed = Pending

IdleLoad ==
  /\ file = NoFile
  /\ loadPc = "idle"
  /\ pos = 0
  /\ scan = ScanStart
  /\ loadResult = Pending

InitLoad ==
  /\ file \in LocalFiles
  /\ loadPc = "open"
  /\ pos = 0
  /\ scan = ScanStart
  /\ loadResult = Pending

\* File::open(file_path).map_err(..)?
LoadOpen ==
  /\ loadPc = "open"
  /\ IF file.exists
     THEN loadPc' = "loop" /\ loadResult' = loadResult
     ELSE loadPc' = "done" /\ loadResult' = Err("No such file or directory (os error 2)")
  /\ UNCHANGED <<file, pos, scan, parseVars, runVars>>

\* One iteration of `for line in reader.lines()`; a `?` inside it returns.
LoadReadLine ==
  /\ loadPc = "loop"
  /\ ~scan.stop
  /\ pos < Len(file.lines)
  /\ LET st == ScanLine(scan, file.lines[pos + 1]) IN
       /\ scan' = st
       /\ pos' = pos + 1
       /\ IF st.error # ""
          THEN loadPc' = "done" /\ loadResult' = Err(st.error)
          ELSE loadPc' = loadPc /\ loadResult' = loadResult
  /\ UNCHANGED <<file, parseVars, runVars>>

\* The loop ends (break, or no line left): Ok(configs).
LoadReturn ==
  /\ loadPc = "loop"
  /\ scan.stop \/ pos = Len(file.lines)
  /\ loadPc' = "done"
  /\ loadResult' = Ok(scan.configs)
  /\ UNCHANGED <<file, pos, scan, parseVars, runVars>>

NextLoad == LoadOpen \/ LoadReadLine \/ LoadReturn

----------------------------------------------------------------------------
(* Spec: the `run <alias> <program>` command, parent and child.             *)

\* The largest exit code the target program ends with.
MaxExitCode == 2

\* The most lines polite.conf has when `run` loads it.
MaxRunLines == 3

\* The most lines a fetched document has.
MaxDocLines == 2

AliasArgs == {ToDecimal(0), ToDecimal(1), ToDecimal(2), <<"x">>}

Programs ==
  {<<".", "/", "p">>, Boinc, <<"/", "x", "/", "b", "o", "i", "n", "c", "d">>}

RunLinePool ==
  { StartMarker,
    EndMarker,
    <<"1", ";", "5", ";", "9">>,
    <<"1", ";", "0", ";", "7">>,
    <<"x">> }

DocLinePool ==
  { <<"6", "5", ";", "1", ";", "2">>,
    <<"6", "5", ";", "7", ";", "8">>,
    <<"1", ";", "5", ";", "9">>,
    <<"x">>,
    <<" ", "6", "5", ";", "3", ";", "4">>,
    <<"#">>,
    <<" ", "#">> }

RunFiles ==
  {NoFile} \cup {[exists |-> TRUE, lines |-> ls] : ls \in SeqsUpTo(RunLinePool, MaxRunLines)}

Responses == {TransportError} \cup {Document(ls) : ls \in SeqsUpTo(DocLinePool, MaxDocLines)}

\* Clock readings in seconds since the epoch, on both sides of the interval.
ClockReadings == {RefreshInterval, RefreshInterval + 1}

\* No child yet; a forked child starts in the parent's process group, with
\* the inherited niceness and OOM-score adjustment (taken as 0), and has not
\* started the target program.
NoChild ==
  [state |-> "none", pgid |-> "parent", ran |-> FALSE, nice |-> 0, oom |-> 0,
   code |-> -1, reaped |-> FALSE]

RunStart(p) ==
  /\ pc = p
  /\ alias = 0
  /\ config = Pending
  /\ runResult = Pending
  /\ exitCode = -1
  /\ stderr = <<>>
  /\ now = -1
  /\ remote = TransportError
  /\ fetched = Pending
  /\ fetchCalls = 0
  /\ oracleCalls = 0
  /\ localFile = NoFile
  /\ loaded = Pending
  /\ localLoads = 0
  /\ child = NoChild
  /\ childOps = <<>>

IdleRun ==
  /\ command = ""
  /\ argc = 0
  /\ aliasArg = <<>>
  /\ program = <<>>
  /\ programExists = FALSE
  /\ RunStart("idle")

\* A command line: args[1], args.len(), args[2] and args[3] (empty when absent).
Invocation(c, n, a2, a3) == [command |-> c, argc |-> n, arg2 |-> a2, arg3 |-> a3]

KnownCommands == {"run", "status", "list"}

Invocations ==
  {Invocation("", 1, <<>>, <<>>)}
  \cup {Invocation(c, 2, <<>>, <<>>) : c \in KnownCommands \cup {"frobnicate"}}
  \cup {Invocation(c, 3, a, <<>>) :
          c \in KnownCommands \cup {"frobnicate"}, a \in {<<"1">>, <<"x">>}}
  \cup {Invocation("run", 4, a, p) : a \in AliasArgs, p \in Programs}

InitRun ==
  /\ \E inv \in Invocations :
       /\ command = inv.command
       /\ argc = inv.argc
       /\ aliasArg = inv.arg2
       /\ program = inv.arg3
  /\ programExists \in (IF command = "run" /\ argc = 4 THEN BOOLEAN ELSE {FALSE})
  /\ RunStart("main")

\* main returns Err(msg): the runtime reports it on standard error and the
\* process exits with code 1.
Fail(msg) ==
  pc' = "done" /\ runResult' = Err(msg) /\ exitCode' = 1
  /\ stderr' = Append(stderr, "Error: {:?}")

\* eprintln! of the lines, then std::process::exit(code): main does not return.
Exit(code, msgs) ==
  pc' = "done" /\ runResult' = runResult /\ exitCode' = code /\ stderr' = stderr \o msgs

\* main returns Ok(()): exit code 0.
ReturnOk == pc' = "done" /\ runResult' = Ok("()") /\ exitCode' = 0

UsageMain ==
  <<"Usage: polite <command> [args]", "Commands: run <alias> <program>, status <pid>, list">>

\* if args.len() < 2 {usage; exit(1)}
MainNoCommand ==
  /\ pc = "main"
  /\ argc < 2
  /\ Exit(1, UsageMain)
  /\ UNCHANGED <<argVars, resolveVars, procVars, parseVars, loadVars>>

\* "run": the argument count is checked before anything else.
MainRun ==
  /\ pc = "main"
  /\ argc >= 2
  /\ command = "run"
  /\ IF argc # 4 THEN Exit(1, <<"Usage: polite run <alias> <program>">>)
     ELSE pc' = "args" /\ UNCHANGED <<runResult, exitCode, stderr>>
  /\ UNCHANGED <<argVars, resolveVars, procVars, parseVars, loadVars>>

\* get_applied_settings as a function of how its two reads end.
get_applied_settings(niceOk, oomOk) ==
  IF ~niceOk THEN Err("Get nice error: {}")
  ELSE IF ~oomOk THEN Err("Get oom error: {}")
  ELSE Ok("PID {}: niceness={}, oom_score_adj={}")

\* "status": argument count, the pid parsed, the settings read and printed.
MainStatus ==
  /\ pc = "main"
  /\ argc >= 2
  /\ command = "status"
  /\ IF argc # 3 THEN Exit(1, <<"Usage: polite status <pid>">>)
     ELSE LET pid == ParseI32(aliasArg) IN
       IF IsErr(pid) THEN Fail(pid.err)
       ELSE \E niceOk \in BOOLEAN, oomOk \in BOOLEAN :
         LET r == get_applied_settings(niceOk, oomOk) IN
         IF IsErr(r) THEN Fail(r.err) ELSE ReturnOk /\ stderr' = stderr
  /\ UNCHANGED <<argVars, resolveVars, procVars, parseVars, loadVars>>

\* "list": the local store is loaded and its entries are printed.
MainList ==
  /\ pc = "main"
  /\ argc >= 2
  /\ command = "list"
  /\ \E f \in RunFiles :
       LET r == load_local_config(f) IN
       /\ localFile' = f
       /\ loaded' = r
       /\ localLoads' = localLoads + 1
       /\ IF IsErr(r) THEN Fail(r.err) ELSE ReturnOk /\ stderr' = stderr
  /\ UNCHANGED <<argVars, alias, config, now, remote, fetched, fetchCalls, oracleCalls,
                 procVars, parseVars, loadVars>>

\* Any other command: a message on standard error, then main's Ok(()).
MainUnknown ==
  /\ pc = "main"
  /\ argc >= 2
  /\ command \notin KnownCommands
  /\ ReturnOk
  /\ stderr' = Append(stderr, "Unknown command: {}")
  /\ UNCHANGED <<argVars, resolveVars, procVars, parseVars, loadVars>>

\* let alias: i8 = args[2].parse()?
RunParseAlias ==
  /\ pc = "args"
  /\ LET r == ParseI8(aliasArg) IN
       IF IsErr(r) THEN Fail(r.err) /\ alias' = alias
       ELSE alias' = r.val /\ pc' = "resolve" /\ UNCHANGED <<runResult, exitCode, stderr>>
  /\ UNCHANGED <<argVars, config, now, remote, fetched, fetchCalls, oracleCalls,
                 localFile, loaded, localLoads, procVars, parseVars, loadVars>>

\* Faulty variant of LocalLookup: a missing alias yields a default config.
LocalLookup_Default(m, a) == IF MapHas(m, a) THEN Ok(MapGet(m, a)) ELSE Ok(PoliteConfig(0, 0))

\* local_configs.get(&alias).cloned().ok_or_else(..)
LocalLookup(m, a) == IF MapHas(m, a) THEN Ok(MapGet(m, a)) ELSE Err("Alias {} not found")

\* Faulty variant of ResolveLocal: the local store is consulted for every
\* alias, the sentinel included.
ResolveLocal_AnyAlias ==
  /\ pc = "resolve"
  /\ \E f \in RunFiles :
       LET r == load_local_config(f)
           c == IF IsOk(r) THEN LocalLookup(r.val, alias) ELSE r
       IN /\ localFile' = f
          /\ loaded' = r
          /\ localLoads' = localLoads + 1
          /\ IF IsErr(c) THEN Fail(c.err) /\ config' = config
             ELSE config' = c /\ pc' = "check_path" /\ UNCHANGED <<runResult, exitCode, stderr>>
  /\ UNCHANGED <<argVars, alias, now, remote, fetched, fetchCalls, oracleCalls,
                 procVars, parseVars, loadVars>>

\* alias != 0: load the local store and look the alias up.
ResolveLocal ==
  /\ pc = "resolve"
  /\ alias # 0
  /\ \E f \in RunFiles :
       LET r == load_local_config(f)
           c == IF IsOk(r) THEN LocalLookup(r.val, alias) ELSE r
       IN /\ localFile' = f
          /\ loaded' = r
          /\ localLoads' = localLoads + 1
          /\ IF IsErr(c) THEN Fail(c.err) /\ config' = config
             ELSE config' = c /\ pc' = "check_path" /\ UNCHANGED <<runResult, exitCode, stderr>>
  /\ UNCHANGED <<argVars, alias, now, remote, fetched, fetchCalls, oracleCalls,
                 procVars, parseVars, loadVars>>

\* alias == 0 and SystemTime::now().duration_since(UNIX_EPOCH)? fails.
ResolveClockError ==
  /\ pc = "resolve"
  /\ alias = 0
  /\ Fail("second time provided was later than self")
  /\ UNCHANGED <<argVars, resolveVars, procVars, parseVars, loadVars>>

\* alias == 0 and the interval has not passed: the oracle alone.
ResolveNoFetch ==
  /\ pc = "resolve"
  /\ alias = 0
  /\ \E t \in ClockReadings :
       /\ ~FetchDue(t)
       /\ now' = t
  /\ config' = Ok(mock_llm_decision(program))
  /\ oracleCalls' = oracleCalls + 1
  /\ pc' = "check_path"
  /\ UNCHANGED <<argVars, alias, remote, fetched, fetchCalls, localFile, loaded, localLoads,
                 runResult, exitCode, stderr, procVars, parseVars, loadVars>>

\* alias == 0 and the interval has passed: the fetch, then entry 65 or the oracle.
ResolveFetch ==
  /\ pc = "resolve"
  /\ alias = 0
  /\ \E t \in ClockReadings :
       /\ FetchDue(t)
       /\ now' = t
  /\ \E resp \in Responses :
       LET f == fetch_online_config(resp) IN
       /\ remote' = resp
       /\ fetched' = f
       /\ fetchCalls' = fetchCalls + 1
       /\ IF UsesFetched(f)
          THEN config' = Ok(MapGet(f.val, WellKnownAlias)) /\ oracleCalls' = oracleCalls
          ELSE config' = Ok(mock_llm_decision(program)) /\ oracleCalls' = oracleCalls + 1
  /\ pc' = "check_path"
  /\ UNCHANGED <<argVars, alias, localFile, loaded, localLoads,
                 runResult, exitCode, stderr, procVars, parseVars, loadVars>>

\* Faulty variant of PathMissing: the existence test is dropped.
PathMissing_Never(ex) == FALSE

\* !Path::new(program).exists(), ex being what the file system answers.
PathMissing(ex) == ~ex

\* if !Path::new(program).exists() {return Err(..)}
CheckPath ==
  /\ pc = "check_path"
  /\ IF PathMissing(programExists) THEN Fail("Program {} not found")
     ELSE pc' = "fork" /\ UNCHANGED <<runResult, exitCode, stderr>>
  /\ UNCHANGED <<argVars, resolveVars, procVars, parseVars, loadVars>>

\* fork()?: the child exists from here on, or the call fails.
Fork ==
  /\ pc = "fork"
  /\ \E ok \in BOOLEAN :
       IF ok
       THEN child' = [NoChild EXCEPT !.state = "forked"] /\ pc' = "set_nice"
            /\ UNCHANGED <<runResult, exitCode, stderr>>
       ELSE Fail("EAGAIN: Try again") /\ child' = child
  /\ UNCHANGED <<argVars, resolveVars, childOps, parseVars, loadVars>>

\* Faulty variant of ParentSetPriority: a failed call is ignored and the parent goes on.
ParentSetPriority_IgnoreError ==
  /\ pc = "set_nice"
  /\ \E ok \in BOOLEAN :
       /\ childOps' = Append(childOps, [op |-> "setpriority", ok |-> ok])
       /\ child' = IF ok THEN [child EXCEPT !.nice = config.val.niceness] ELSE child
       /\ pc' = "write_oom" /\ UNCHANGED <<runResult, exitCode, stderr>>
  /\ UNCHANGED <<argVars, resolveVars, parseVars, loadVars>>

\* apply_runtime_settings, first call: setpriority(child, config.niceness)?
ParentSetPriority ==
  /\ pc = "set_nice"
  /\ \E ok \in BOOLEAN :
       /\ childOps' = Append(childOps, [op |-> "setpriority", ok |-> ok])
       /\ IF ok
          THEN child' = [child EXCEPT !.nice = config.val.niceness] /\ pc' = "write_oom"
               /\ UNCHANGED <<runResult, exitCode, stderr>>
          ELSE Fail("Niceness error: {}") /\ child' = child
  /\ UNCHANGED <<argVars, resolveVars, parseVars, loadVars>>

\* What /proc/<pid>/oom_score_adj holds after `text` is written to it.
OomWritten(text) == ParseI32(text).val

\* Faulty variant of ParentWriteOom: the niceness is written in place of the
\* OOM-score adjustment.
ParentWriteOom_NiceValue ==
  /\ pc = "write_oom"
  /\ \E ok \in BOOLEAN :
       /\ childOps' = Append(childOps, [op |-> "write_oom", ok |-> ok])
       /\ IF ok
          THEN child' = [child EXCEPT !.oom = OomWritten(ToDecimal(config.val.niceness))]
               /\ pc' = "wait" /\ UNCHANGED <<runResult, exitCode, stderr>>
          ELSE Fail("OOM error: {}") /\ child' = child
  /\ UNCHANGED <<argVars, resolveVars, parseVars, loadVars>>

\* apply_runtime_settings, second call: write the decimal text to
\* /proc/<pid>/oom_score_adj; on success main prints and goes on to waitpid.
ParentWriteOom ==
  /\ pc = "write_oom"
  /\ \E ok \in BOOLEAN :
       /\ childOps' = Append(childOps, [op |-> "write_oom", ok |-> ok])
       /\ IF ok
          THEN child' = [child EXCEPT !.oom = OomWritten(ToDecimal(config.val.oom_score_adj))]
               /\ pc' = "wait" /\ UNCHANGED <<runResult, exitCode, stderr>>
          ELSE Fail("OOM error: {}") /\ child' = child
  /\ UNCHANGED <<argVars, resolveVars, parseVars, loadVars>>

\* Faulty variant of ParentWait: the parent waits first and applies the
\* settings to the pid afterwards.
ParentWait_ThenApply ==
  /\ pc = "wait"
  /\ child.state = "exited"
  /\ ~child.reaped
  /\ \E ok \in BOOLEAN :
       /\ childOps' = Append(childOps, [op |-> "waitpid", ok |-> ok])
       /\ IF ok
          THEN child' = [child EXCEPT !.reaped = TRUE]
               /\ pc' = "set_nice" /\ UNCHANGED <<runResult, exitCode, stderr>>
          ELSE Fail("ECHILD: No child processes") /\ child' = child
  /\ UNCHANGED <<argVars, resolveVars, parseVars, loadVars>>

\* waitpid(child, None)?; Ok(()): the call blocks until the child has ended,
\* its status is dropped and main returns Ok, exit code 0.
ParentWait ==
  /\ pc = "wait"
  /\ child.state = "exited"
  /\ \E ok \in BOOLEAN :
       /\ childOps' = Append(childOps, [op |-> "waitpid", ok |-> ok])
       /\ IF ok
          THEN child' = [child EXCEPT !.reaped = TRUE]
               /\ ReturnOk /\ stderr' = stderr
          ELSE Fail("ECHILD: No child processes") /\ child' = child
  /\ UNCHANGED <<argVars, resolveVars, parseVars, loadVars>>

ChildFrame == UNCHANGED <<argVars, ctlVars, resolveVars, childOps, parseVars, loadVars>>

\* Faulty variant of ChildSetpgid: a failed setpgid is ignored and the child
\* goes on to exec.
ChildSetpgid_IgnoreError ==
  /\ child.state = "forked"
  /\ \E ok \in BOOLEAN :
       child' = IF ok THEN [child EXCEPT !.state = "grouped", !.pgid = "own"]
                ELSE [child EXCEPT !.state = "grouped"]
  /\ ChildFrame

\* Child: setpgid(0, 0)?; an error returns from main in the child, exit code 1.
ChildSetpgid ==
  /\ child.state = "forked"
  /\ \E ok \in BOOLEAN :
       child' = IF ok THEN [child EXCEPT !.state = "grouped", !.pgid = "own"]
                ELSE [child EXCEPT !.state = "exited", !.code = 1]
  /\ ChildFrame

\* Faulty variant of ChildExec: the child starts the target program only once
\* the parent has applied both settings.
ChildExec_AfterSettings ==
  /\ child.state = "grouped"
  /\ Len(childOps) >= 2
  /\ \E ok \in BOOLEAN :
       child' = IF ok THEN [child EXCEPT !.state = "running", !.ran = TRUE]
                ELSE [child EXCEPT !.state = "exited", !.code = 1]
  /\ ChildFrame

\* Child: Command::new(program)...exec(); it returns only on failure, and
\* then std::process::exit(1).
ChildExec ==
  /\ child.state = "grouped"
  /\ \E ok \in BOOLEAN :
       child' = IF ok THEN [child EXCEPT !.state = "running", !.ran = TRUE]
                ELSE [child EXCEPT !.state = "exited", !.code = 1]
  /\ ChildFrame

\* Child: the target program ends with some exit code.
ChildExit ==
  /\ child.state = "running"
  /\ \E k \in 0..MaxExitCode : child' = [child EXCEPT !.state = "exited", !.code = k]
  /\ ChildFrame

Next ==
  \/ MainNoCommand
  \/ MainRun
  \/ MainStatus
  \/ MainList
  \/ MainUnknown
  \/ RunParseAlias
  \/ ResolveLocal
  \/ ResolveClockError
  \/ ResolveNoFetch
  \/ ResolveFetch
  \/ CheckPath
  \/ Fork
  \/ ParentSetPriority
  \/ ParentWriteOom
  \/ ParentWait
  \/ ChildSetpgid
  \/ ChildExec
  \/ ChildExit

----------------------------------------------------------------------------
(* Specifications.                                                          *)

vars == <<parseVars, loadVars, runVars>>

ParseInit == InitParse /\ IdleLoad /\ IdleRun

LoadInit == InitLoad /\ IdleParse /\ IdleRun

Init == InitRun /\ IdleParse /\ IdleLoad

SpecParse == ParseInit /\ [][NextParse]_vars

SpecLoad == LoadInit /\ [][NextLoad]_vars

Spec == Init /\ [][Next]_vars

----------------------------------------------------------------------------
(* Claims about parse_config_line, checked under SpecParse.                 *)

\* The line is `a;n;o` for three integers written in decimal.
IsIntTriple == Len(cells) = 3 /\ \A i \in 1..3 : cells[i].int

LineA == cells[1].v

LineN == cells[2].v

LineO == cells[3].v

InRange(n, o) == n >= NiceMin /\ n <= NiceMax /\ o >= OomMin /\ o <= OomMax

\* Alias fields whose text denotes zero.
ZeroAliasCells ==
  {IntCell(0), RawCell(<<"+", "0">>), RawCell(<<"-", "0">>), RawCell(<<"0", "0">>)}

\* C6 as stated: every line a;n;o with a # 0, n in [-20,19], o in [-1000,1000]
\* parses to exactly (a, {n, o}), for every integer a.
C6_AnyAlias ==
  (parsed # Pending /\ IsIntTriple /\ LineA # 0 /\ InRange(LineN, LineO))
    => parsed = Ok(<<LineA, PoliteConfig(LineN, LineO)>>)

\* C6 amended: every line a;n;o with a # 0 in the i8 range -128..127, n in
\* [-20,19] and o in [-1000,1000] parses to exactly (a, {niceness: n,
\* oom_score_adj: o}).
C6_ValidLineParses ==
  (parsed # Pending /\ IsIntTriple /\ LineA # 0 /\ LineA >= I8Min /\ LineA <= I8Max
     /\ InRange(LineN, LineO))
    => parsed = Ok(<<LineA, PoliteConfig(LineN, LineO)>>)

C6_Witness ==
  /\ cells = <<IntCell(I8Min), IntCell(NiceMax), IntCell(OomMin)>>
  /\ parsed = Ok(<<I8Min, PoliteConfig(NiceMax, OomMin)>>)

\* C7 as stated: every line whose alias field is 0 fails with "Alias 0
\* reserved", whatever the other fields are, also when they are missing.
C7_AnyOtherFields ==
  (parsed # Pending /\ cells[1] \in ZeroAliasCells) => parsed = Err("Alias 0 reserved")

\* C7 amended: every line with at least three fields whose alias field is 0
\* fails with "Alias 0 reserved", whether the other fields are in range, out
\* of range, non-numeric or empty.
C7_ReservedAlias ==
  (parsed # Pending /\ Len(cells) >= 3 /\ cells[1] \in ZeroAliasCells)
    => parsed = Err("Alias 0 reserved")

C7_Witness ==
  /\ Len(cells) = 3
  /\ cells[1] = IntCell(0)
  /\ cells[2] = RawCell(<<"x">>)
  /\ parsed = Err("Alias 0 reserved")

\* C8 as stated, for alias fields that fit the alias type: every line a;n;o
\* with n outside [-20,19] or o outside [-1000,1000] fails with "Value out of
\* range", whatever the alias field.
C8_AnyAlias ==
  (parsed # Pending /\ IsIntTriple /\ LineA >= I8Min /\ LineA <= I8Max
     /\ ~InRange(LineN, LineO))
    => parsed = Err("Value out of range")

\* A field holding a decimal integer outside the i32 range.
BeyondI32Cells ==
  {RawCell(<<"2", "1", "4", "7", "4", "8", "3", "6", "4", "8">>),
   RawCell(<<"-", "2", "1", "4", "7", "4", "8", "3", "6", "4", "9">>)}

\* C8 amended: a line a;n;o with n outside [-20,19] or o outside [-1000,1000]
\* never yields a config (nothing is clamped); it fails with "Value out of
\* range" when a is a nonzero i8 and n and o fit in an i32.
C8_OutOfRangeRejected ==
  /\ (parsed # Pending /\ IsIntTriple /\ ~InRange(LineN, LineO))
       => /\ IsErr(parsed)
          /\ (LineA # 0 /\ LineA >= I8Min /\ LineA <= I8Max)
               => parsed = Err("Value out of range")
  /\ (parsed # Pending /\ Len(cells) = 3
        /\ (cells[2] \in BeyondI32Cells \/ cells[3] \in BeyondI32Cells))
       => IsErr(parsed)

C8_Witness ==
  /\ cells = <<IntCell(1), IntCell(NiceMin), IntCell(OomMax + 1)>>
  /\ parsed = Err("Value out of range")

----------------------------------------------------------------------------
(* Claims about load_local_config, checked under SpecLoad.                  *)

Lines == file.lines

IsEndLine(raw) == raw # InvalidUtf8 /\ Trim(raw) = EndMarker

IsStartLine(raw) == raw # InvalidUtf8 /\ Trim(raw) = StartMarker

HasEnd == \E i \in 1..Len(Lines) : IsEndLine(Lines[i])

\* The index of the first -END- line, or one past the last line.
FirstEnd ==
  IF HasEnd
  THEN CHOOSE i \in 1..Len(Lines) :
         IsEndLine(Lines[i]) /\ \A j \in 1..(i - 1) : ~IsEndLine(Lines[j])
  ELSE Len(Lines) + 1

\* Line i lies in the active section: after a -START- line, before the first
\* -END- line, and is no marker itself.
InActive(i) ==
  /\ i < FirstEnd
  /\ ~IsStartLine(Lines[i])
  /\ \E j \in 1..(i - 1) : IsStartLine(Lines[j])

\* Line i is text that is not blank, not a comment and not a record.
Malformed(i) ==
  /\ Lines[i] # InvalidUtf8
  /\ LET l == Trim(Lines[i]) IN
       /\ ~IsEmpty(l)
       /\ ~StartsWith(l, "#")
       /\ l \notin {StartMarker, EndMarker}
       /\ IsErr(parse_config_line(l))

\* C9: load_local_config reads no line after the first -END- line, and what
\* it returns is what it returns for the file cut after that line: nothing
\* after the first -END- adds an entry or fails the load.
C9_StopsAtFirstEnd ==
  (file.exists /\ HasEnd)
    => /\ pos <= FirstEnd
       /\ loadPc = "done"
            => loadResult = load_local_config([file EXCEPT !.lines = SubSeq(Lines, 1, FirstEnd)])

C9_Witness ==
  /\ Lines = <<StartMarker, <<"1", ";", "5", ";", "9">>, EndMarker, <<"x">>>>
  /\ loadPc = "done"
  /\ loadResult = Ok({<<1, PoliteConfig(5, 9)>>})

\* C10: with a line in the active section that is not blank, not a comment
\* and does not parse, the load returns an error and no mapping, also after
\* valid records; a file that opens, whose lines up to the first -END- are
\* readable and whose malformed lines all lie outside the active section,
\* loads.
C10_MalformedInSectionFails ==
  (loadPc = "done" /\ file.exists)
    => /\ (\E i \in 1..Len(Lines) : InActive(i) /\ Malformed(i)) => IsErr(loadResult)
       /\ ( /\ \A i \in 1..Len(Lines) : i < FirstEnd => Lines[i] # InvalidUtf8
            /\ \A i \in 1..Len(Lines) : Malformed(i) => ~InActive(i) )
          => IsOk(loadResult)

C10_Witness ==
  /\ Lines = <<<<"x">>, StartMarker, <<"1", ";", "5", ";", "9">>, <<"x">>>>
  /\ loadPc = "done"
  /\ loadResult = Err("Invalid config")

----------------------------------------------------------------------------
(* Claims about `run`, checked under Spec.                                  *)

\* The parent applied both settings and its wait returned.
AppliedAndWaited ==
  /\ Len(childOps) = 3
  /\ \A i \in 1..3 : childOps[i].ok

\* C1: when the child is created and both settings are applied, `run` returns
\* only after the child has exited and its exit code is the child's (here for
\* a child that ran the target program).
C1_ExitCodeIsChilds ==
  (pc = "done" /\ AppliedAndWaited /\ child.ran)
    => (child.state = "exited" /\ exitCode = child.code)

\* Some line of polite.conf is, trimmed, the record of alias a with config c.
RecordInFile(a, c) ==
  \E i \in 1..Len(localFile.lines) :
    parse_config_line(Trim(localFile.lines[i])) = Ok(<<a, c>>)

\* C2: for alias a # 0 and a local store that loads: if it contains a, the
\* resolved config is its entry for a; if not, the run fails with "alias not
\* found", the fetcher and the oracle are never invoked and no child exists.
C2_LocalLookup ==
  (alias # 0 /\ IsOk(loaded))
    => IF MapHas(loaded.val, alias)
       THEN /\ config = Ok(MapGet(loaded.val, alias))
            /\ RecordInFile(alias, config.val)
       ELSE /\ pc = "done"
            /\ runResult = Err("Alias {} not found")
            /\ exitCode = 1
            /\ config = Pending
            /\ fetchCalls = 0
            /\ oracleCalls = 0
            /\ child.state = "none"

C2_Witness ==
  /\ alias = 2
  /\ IsOk(loaded)
  /\ MapHas(loaded.val, 1)
  /\ runResult = Err("Alias {} not found")
  /\ child.state = "none"

\* C3: for alias 0 with the fetch attempted, resolution yields a config and
\* does not fail: entry 65 of the fetched mapping when the fetch succeeds and
\* has it, else the oracle's result for the program path; a transport error
\* is a failed fetch.
C3_DynamicResolution ==
  fetchCalls > 0
    => /\ fetchCalls = 1
       /\ alias = 0
       /\ ~remote.ok => IsErr(fetched)
       /\ IF IsOk(fetched) /\ WellKnownAlias \in MapKeys(fetched.val)
          THEN config = Ok(MapGet(fetched.val, WellKnownAlias)) /\ oracleCalls = 0
          ELSE config = Ok(mock_llm_decision(program)) /\ oracleCalls = 1
       /\ IsErr(runResult) => runResult.err \in {"Program {} not found", "EAGAIN: Try again",
                                                 "Niceness error: {}", "OOM error: {}",
                                                 "ECHILD: No child processes"}

C3_Witness ==
  /\ fetchCalls = 1
  /\ remote = Document(<<<<"1", ";", "5", ";", "9">>, <<" ", "6", "5", ";", "3", ";", "4">>>>)
  /\ fetched = Ok({<<1, PoliteConfig(5, 9)>>})
  /\ program = Boinc
  /\ config = Ok(PoliteConfig(5, 100))

\* C4 as stated, in the case of a numeric alias and a local store that
\* loads: a run whose program path does not exist fails with "program not
\* found", whatever alias was given.
C4_AlwaysProgramNotFound ==
  (pc = "done" /\ ~programExists /\ alias # 0 /\ IsOk(loaded))
    => runResult = Err("Program {} not found")

\* C4 amended: a run whose program path does not exist creates no child and
\* performs no niceness or OOM-score write, whatever alias was given and
\* whichever tier resolved the config; when resolution yielded a config, the
\* run fails with "program not found".
C4_NoForkWithoutProgram ==
  ~programExists
    => /\ child = NoChild
       /\ childOps = <<>>
       /\ (pc = "done" /\ IsOk(config))
            => (runResult = Err("Program {} not found") /\ exitCode = 1)

C4_Witness ==
  /\ ~programExists
  /\ pc = "done"
  /\ alias = 0
  /\ fetchCalls = 1
  /\ IsOk(config)
  /\ runResult = Err("Program {} not found")

ApplyOps == {"setpriority", "write_oom"}

ApplyError(op) == IF op = "setpriority" THEN "Niceness error: {}" ELSE "OOM error: {}"

\* C5: a failed niceness or OOM-score application is the parent's last action
\* on the child: the run fails with that error, nothing is retried, the
\* remaining setting is not attempted, the child is not waited for or killed,
\* and a niceness set before a failed OOM write stays set.
C5_ApplyFailureIsFinal ==
  \A i \in 1..Len(childOps) :
    (childOps[i].op \in ApplyOps /\ ~childOps[i].ok)
      => /\ i = Len(childOps)
         /\ pc = "done"
         /\ runResult = Err(ApplyError(childOps[i].op))
         /\ exitCode = 1
         /\ ~child.reaped
         /\ child.state # "none"
         /\ child.oom = 0
         /\ IF childOps[i].op = "setpriority"
            THEN i = 1 /\ child.nice = 0
            ELSE /\ i = 2
                 /\ childOps[1] = [op |-> "setpriority", ok |-> TRUE]
                 /\ child.nice = config.val.niceness

C5_Witness ==
  /\ runResult = Err("OOM error: {}")
  /\ child.state = "running"
  /\ child.nice = 5
  /\ child.oom = 0
  /\ Len(childOps) = 2

----------------------------------------------------------------------------
(* Claims about fetch_online_config, checked under Spec on the document    *)
(* the dynamic branch retrieved.                                            *)

\* A document line that is kept by the filter and parses as it stands.
WellFormed(l) == Candidate(l) /\ IsOk(parse_config_line(l))

\* The entries of a document's well-formed lines, a later line for an alias
\* replacing an earlier one.
DocEntries(ls) ==
  { parse_config_line(ls[i]).val :
      i \in { k \in 1..Len(ls) :
                /\ WellFormed(ls[k])
                /\ \A j \in (k + 1)..Len(ls) :
                     WellFormed(ls[j])
                       => parse_config_line(ls[j]).val[1] # parse_config_line(ls[k]).val[1] } }

Retrieved == fetchCalls > 0 /\ remote.ok

\* C11: for a retrieved document, fetch_online_config returns exactly the
\* entries of its well-formed lines when there is one (malformed lines are
\* skipped), the error "No valid online configs" when there is none, and
\* never an empty mapping as success.
C11_FetchResult ==
  /\ Retrieved =>
       IF \E i \in 1..Len(remote.lines) : WellFormed(remote.lines[i])
       THEN fetched = Ok(DocEntries(remote.lines))
       ELSE fetched = Err("No valid online configs")
  /\ IsOk(fetched) => fetched.val # EmptyMap

C11_Witness ==
  /\ Retrieved
  /\ Len(remote.lines) = 2
  /\ ~WellFormed(remote.lines[1])
  /\ Candidate(remote.lines[1])
  /\ WellFormed(remote.lines[2])
  /\ IsOk(fetched)
  /\ Cardinality(fetched.val) = 1

----------------------------------------------------------------------------
(* Claims about the command dispatch, checked under Spec.                   *)

UsagePrinted == \E i \in 1..Len(stderr) : stderr[i] \in {UsageMain[1], UsageMain[2]}

\* C12: an invocation with no command or with an unknown command prints a
\* usage message and terminates with exit code 1.
C12_UsageAndExit1 ==
  (pc = "done" /\ (argc < 2 \/ command \notin KnownCommands))
    => (UsagePrinted /\ exitCode = 1)

----------------------------------------------------------------------------
(* Claims about the parent and the child after fork, checked under Spec.    *)

ParentOpOrder == <<"setpriority", "write_oom", "waitpid">>

\* C13: on a forked child the parent sets the niceness at most once, then
\* writes the OOM-score adjustment at most once, each with the resolved
\* value, starts to wait only after both have succeeded, and does nothing
\* else to the child.
C13_ApplyOnceInOrder ==
  /\ Len(childOps) <= Len(ParentOpOrder)
  /\ \A i \in 1..Len(childOps) :
       /\ childOps[i].op = ParentOpOrder[i]
       /\ i < Len(childOps) => childOps[i].ok
  /\ childOps # <<>> => child.state # "none"
  /\ child.nice = IF Len(childOps) >= 1 /\ childOps[1].ok THEN config.val.niceness ELSE 0
  /\ child.oom = IF Len(childOps) >= 2 /\ childOps[2].ok THEN config.val.oom_score_adj ELSE 0
  /\ pc = "wait" =>
       childOps = <<[op |-> "setpriority", ok |-> TRUE], [op |-> "write_oom", ok |-> TRUE]>>

C13_Witness ==
  /\ pc = "done"
  /\ Len(childOps) = 3
  /\ child.reaped
  /\ config = Ok(PoliteConfig(5, 9))
  /\ child.nice = 5
  /\ child.oom = 9

\* C14: no handshake orders the child after the parent: whatever the parent
\* has or has not done, a child that has forked can change its process group,
\* one that has done so can start the target program, and a running target
\* program can end; so the target program can run, and end, with the
\* niceness and OOM-score adjustment still at their inherited values.
C14_NoHandshake ==
  /\ child.state = "forked" => ENABLED ChildSetpgid
  /\ child.state = "grouped" => ENABLED ChildExec
  /\ child.state = "running" => ENABLED ChildExit

C14_Witness ==
  /\ child.state = "exited"
  /\ child.ran
  /\ pc = "set_nice"
  /\ childOps = <<>>
  /\ config = Ok(PoliteConfig(5, 9))
  /\ child.nice = 0
  /\ child.oom = 0

\* A step of the child process.
ChildStep == child.state # "none" /\ child.state' # child.state

\* C15: the child starts the target program only after setpgid(0, 0) has
\* put it in its own process group; a child whose setpgid or exec failed ends
\* with a nonzero status; and no step of the child applies a setting, waits,
\* or ends main in the parent.
C15_ChildOrder ==
  /\ [](/\ child.ran => child.pgid = "own"
        /\ child.state \in {"grouped", "running"} => child.pgid = "own"
        /\ (child.state = "exited" /\ ~child.ran) => child.code = 1)
  /\ [][ChildStep => UNCHANGED <<childOps, ctlVars, child.nice, child.oom, child.reaped>>]_vars

C15_Witness ==
  /\ child.state = "exited"
  /\ ~child.ran
  /\ child.pgid = "own"
  /\ child.code = 1
  /\ pc = "wait"

----------------------------------------------------------------------------
(* Claims about the two resolution tiers, checked under Spec.               *)

\* A well-formed `run` whose alias argument parses.
RunWithAlias == command = "run" /\ argc = 4 /\ IsOk(ParseI8(aliasArg))

LocalStoreErrors == {"No such file or directory (os error 2)", "Alias {} not found"}

\* C16: a `run` with alias 0 never opens or looks up the local store, so
\* nothing of the local file reaches its config or its result; a `run` with
\* any other alias never reads the clock, fetches or asks the oracle.
C16_TierSeparation ==
  RunWithAlias =>
    IF ParseI8(aliasArg).val = 0
    THEN /\ localLoads = 0
         /\ loaded = Pending
         /\ localFile = NoFile
         /\ IsErr(runResult) => runResult.err \notin LocalStoreErrors
    ELSE /\ fetchCalls = 0
         /\ oracleCalls = 0
         /\ now = -1
         /\ fetched = Pending

C16_Witness ==
  /\ aliasArg = <<"0">>
  /\ pc = "done"
  /\ runResult = Ok("()")
  /\ fetchCalls = 1
  /\ localLoads = 0
  /\ config = Ok(PoliteConfig(7, 8))

----------------------------------------------------------------------------
(* The remote filter against the local one, checked under Spec on the      *)
(* document the dynamic branch retrieved.                                    *)

IsMarker(l) == Trim(l) \in {StartMarker, EndMarker}

\* After trimming, the line is blank, a comment, or a valid record.
ValidAfterTrim(l) ==
  LET t == Trim(l) IN IsEmpty(t) \/ StartsWith(t, "#") \/ IsOk(parse_config_line(t))

\* The local file holding the lines between the two markers.
Delimited(ls) == [exists |-> TRUE, lines |-> <<StartMarker>> \o ls \o <<EndMarker>>]

\* C17: for a document without section markers whose non-blank, non-comment
\* lines are all valid records after trimming, the mapping fetch_online_config
\* builds equals the mapping load_local_config builds from the same lines
\* placed between -START- and -END-.
C17_SameAsLocal ==
  ( /\ Retrieved
    /\ IsOk(fetched)
    /\ \A i \in 1..Len(remote.lines) :
         ~IsMarker(remote.lines[i]) /\ ValidAfterTrim(remote.lines[i]) )
    => load_local_config(Delimited(remote.lines)) = fetched

----------------------------------------------------------------------------
(* The section markers of the local store, checked under SpecLoad.          *)

\* Line i is a record that yields the entry e.
YieldsEntry(i, e) ==
  Lines[i] # InvalidUtf8 /\ parse_config_line(Trim(Lines[i])) = Ok(e)

\* C18: every entry of a mapping load_local_config returns comes from a line
\* that lies after a -START- line and before a later -END- line of the file.
C18_OnlyDelimited ==
  (loadPc = "done" /\ IsOk(loadResult))
    => \A e \in loadResult.val :
         \E i \in 1..Len(Lines) :
           /\ YieldsEntry(i, e)
           /\ \E j \in 1..(i - 1) : IsStartLine(Lines[j])
           /\ \E k \in (i + 1)..Len(Lines) : IsEndLine(Lines[k])

----------------------------------------------------------------------------
(* The pid the settings are applied to, checked under Spec.                 *)

\* A step in which the parent applies a setting to the child's pid.
ApplyStep ==
  /\ Len(childOps') = Len(childOps) + 1
  /\ childOps'[Len(childOps')].op \in ApplyOps

\* C19: whenever the parent applies the niceness or the OOM-score adjustment,
\* the child has been forked and the parent has not yet waited on it, so the
\* pid still belongs to the child (running, or ended and not reaped).
C19_ApplyBeforeReap ==
  [][ApplyStep =>
       /\ child.state # "none"
       /\ ~child.reaped
       /\ \A i \in 1..Len(childOps) : childOps[i].op # "waitpid"]_vars

C19_Witness ==
  /\ pc = "write_oom"
  /\ child.state = "exited"
  /\ ~child.reaped
  /\ childOps = <<[op |-> "setpriority", ok |-> TRUE]>>
  /\ child.nice = 5

====
